---- MODULE Spec2Model ----
(***************************************************************************)
(* Panel window-state manager and scroll-focus coordinator of the CV page. *)
(* The model follows the later copy of the page script (part_001, lines    *)
(* 559-695); the earlier copy (lines 315-460) has the same handlers bound  *)
(* per terminal instead of on the document.                                *)
(*                                                                         *)
(* Lengths of the layout are in CSS pixels.  Scroll positions and          *)
(* rectangle coordinates are kept in half pixels (Px(n) = 2n), because the *)
(* centring target divides a pixel difference by two and JavaScript        *)
(* numbers keep the half.                                                  *)
(***************************************************************************)
EXTENDS Integers, Sequences, FiniteSets, TLC

VARIABLES
    classList,    \* element id -> set of the window-state classes it carries
    dataState,    \* panel id -> the title's data-state attribute (tokens)
    hash,         \* location.hash without the '#'
    historyLen,   \* number of entries of the session history
    startPending, \* the 100 ms start-up timer has not fired yet
    loadedHash,   \* location.hash (without the '#') when the script started
    layout,       \* toolbar, viewport and element geometry (environment)
    timerCap,     \* callbacks the specification lets be pending at once
    scrollY,      \* window.scrollY, in half pixels
    smoothTarget, \* {} or {requested top of the smooth scroll in progress}
    timers,       \* pending re-validation callbacks, in scheduling order
    userActed,    \* some click or script call happened since the page loaded
    last          \* the handler that ran last (observation only)

vars == <<classList, dataState, hash, historyLen, startPending, loadedHash,
          layout, timerCap, scrollY, smoothTarget, timers, userActed, last>>

----------------------------------------------------------------------------
(* Bounds of the model *)

\* at most this many re-validation callbacks are pending at once, under the
\* whole page (Spec), under the user's clicks alone (SpecClicks) and under
\* the scroll coordinator alone (SpecScroll)
MaxTimers == 1

MaxClickTimers == 2

MaxScrollTimers == 2

----------------------------------------------------------------------------
(* The document *)

\* the terminal panels (elements of class 'terminal' that carry an id)
Panels == {"about", "education"}

\* an element with an id that is not a terminal panel
OtherElements == {"togglePalette"}

Elements == Panels \cup OtherElements

\* an id no element carries
AbsentIds == {"does-not-exist"}

Ids == Elements \cup AbsentIds

\* the fragments the page is loaded with: none, or the id of a panel
LoadHashes == {"", "education"}

Classes == {"closed", "minimized", "maxwide"}

IDs_TO_ADJUST_SCROLL == {"about"}

NoElement == "null"

Px(n) == 2 * n

Max(a, b) == IF a >= b THEN a ELSE b

Min(a, b) == IF a <= b THEN a ELSE b

getElementById(id) == IF id \in Elements THEN id ELSE NoElement

\* the largest scroll position the document allows
MaxScroll(lay) == Max(0, Px(lay.docHeight - lay.innerHeight))

\* a requested scroll position, as the window clamps it
ClampScroll(lay, y) == Max(0, Min(y, MaxScroll(lay)))

----------------------------------------------------------------------------
(* Title state label *)

\* a refresh that leaves 'max' out of the label
refreshTitleStateNoMax(cl) ==
    (IF "closed" \in cl THEN <<"cerrada">> ELSE <<>>)
    \o (IF "minimized" \in cl THEN <<"minimizada">> ELSE <<>>)

\* states.join(' ') is kept as the sequence of its tokens
refreshTitleState(cl) ==
    (IF "closed" \in cl THEN <<"cerrada">> ELSE <<>>)
    \o (IF "minimized" \in cl THEN <<"minimizada">> ELSE <<>>)
    \o (IF "maxwide" \in cl THEN <<"max">> ELSE <<>>)

\* the class observers of the terminals run before the next task
ObservedTitles(cls) == [p \in Panels |-> refreshTitleState(cls[p])]

----------------------------------------------------------------------------
(* Class list operations *)

toggle(cl, c) == IF c \in cl THEN cl \ {c} ELSE cl \cup {c}

\* document.querySelectorAll('.terminal.maxwide').forEach(remove 'maxwide')
UnmaximizeAll(cls) ==
    [e \in Elements |-> IF e \in Panels THEN cls[e] \ {"maxwide"} ELSE cls[e]]

\* focusTerminal without the line that reopens the terminal
focusTerminalKeepsClosed(cls, term) ==
    [UnmaximizeAll(cls) EXCEPT ![term] = @ \cup {"maxwide"}]

focusTerminal(cls, term) ==
    LET cleared == UnmaximizeAll(cls)
    IN  [cleared EXCEPT ![term] = (@ \ {"closed", "minimized"}) \cup {"maxwide"}]

\* the red button removing only 'minimized'
redClickKeepsMaximized(cls, term) ==
    [cls EXCEPT ![term] = toggle(@, "closed") \ {"minimized"}]

\* the red button adding 'closed' instead of toggling it
redClickAlwaysCloses(cls, term) ==
    [cls EXCEPT ![term] = (@ \cup {"closed"}) \ {"minimized", "maxwide"}]

redClick(cls, term) ==
    [cls EXCEPT ![term] = toggle(@, "closed") \ {"minimized", "maxwide"}]

\* the yellow button adding 'minimized' instead of toggling it
yellowClickAlwaysMinimizes(cls, term) ==
    [cls EXCEPT ![term] = (@ \cup {"minimized"}) \ {"closed", "maxwide"}]

yellowClick(cls, term) ==
    [cls EXCEPT ![term] = toggle(@, "minimized") \ {"closed", "maxwide"}]

\* the green button without the line that un-maximizes the other terminals
greenClickKeepsOthers(cls, term) ==
    IF "maxwide" \notin cls[term]
    THEN [cls EXCEPT ![term] = (@ \ {"closed", "minimized"}) \cup {"maxwide"}]
    ELSE [cls EXCEPT ![term] = @ \ {"closed", "minimized", "maxwide"}]

\* the green button without the wasMaximized test
greenClickAlwaysMaximizes(cls, term) ==
    [UnmaximizeAll(cls) EXCEPT ![term] = (@ \ {"closed", "minimized"}) \cup {"maxwide"}]

greenClick(cls, term) ==
    LET wasMaximized == "maxwide" \in cls[term]
        cleared == UnmaximizeAll(cls)
        opened == [cleared EXCEPT ![term] = @ \ {"closed", "minimized"}]
    IN  IF ~wasMaximized
        THEN [opened EXCEPT ![term] = @ \cup {"maxwide"}]
        ELSE opened

----------------------------------------------------------------------------
(* Scroll coordinator *)

ToolbarMargin == 12

FitMargin == 16

TopAlignGap == 8

TopSlack == 6

BottomSlack == 8

\* layout.toolbar is <<>> when the page has no toolbar, <<height>> otherwise
getToolbarOffset(lay) ==
    (IF lay.toolbar # <<>> THEN lay.toolbar[1] ELSE 0) + ToolbarMargin

\* term.getBoundingClientRect(), in half pixels, at scroll position y
RectTop(lay, y, term) == Px(lay.top[term]) - y

RectBottom(lay, y, term) == RectTop(lay, y, term) + Px(lay.height[term])

\* the fit test with < in place of <=
fitsInViewportStrict(lay, term) ==
    lay.height[term] + getToolbarOffset(lay) + FitMargin < lay.innerHeight

fitsInViewport(lay, term) ==
    lay.height[term] + getToolbarOffset(lay) + FitMargin <= lay.innerHeight

targetScrollTop(lay, y, term) ==
    LET offset == getToolbarOffset(lay)
        absoluteTermTop == y + RectTop(lay, y, term)
        viewportHeight == lay.innerHeight
    IN  IF fitsInViewport(lay, term)
        THEN Max(0, absoluteTermTop - (Px(viewportHeight - lay.height[term]) \div 2))
        ELSE Max(0, absoluteTermTop - Px(offset) - Px(TopAlignGap))

\* what the setTimeout callback of scrollAdjusted closes over
Revalidation(lay, y, term, forceAdjust) ==
    [term |-> term,
     targetScrollTop |-> targetScrollTop(lay, y, term),
     offset |-> getToolbarOffset(lay),
     viewportHeight |-> lay.innerHeight,
     fitsInViewport |-> fitsInViewport(lay, term),
     forceAdjust |-> forceAdjust]

\* the first corrective scrollBy of the callback: 0 when it is not issued
TopCorrection(lay, y, rec) ==
    LET top == RectTop(lay, y, rec.term)
    IN  IF top < Px(rec.offset + TopSlack)
        THEN top - Px(rec.offset + TopSlack)
        ELSE 0

\* the bottom test with the fit and the viewport height read again when the
\* callback runs
BottomCorrectionIssuedLive(lay, y, rec) ==
    /\ RectBottom(lay, y, rec.term) > Px(lay.innerHeight - BottomSlack)
    /\ (fitsInViewport(lay, rec.term) \/ rec.forceAdjust)

BottomCorrectionIssued(lay, y, rec) ==
    /\ RectBottom(lay, y, rec.term) > Px(rec.viewportHeight - BottomSlack)
    /\ (rec.fitsInViewport \/ rec.forceAdjust)

\* the second corrective scrollBy, from the rectangle read before the first
BottomCorrection(lay, y, rec) ==
    IF BottomCorrectionIssued(lay, y, rec)
    THEN RectBottom(lay, y, rec.term) - Px(rec.viewportHeight - BottomSlack)
    ELSE 0

\* scroll position after the callback ran at position y
Revalidated(lay, y, rec) ==
    LET afterTop == IF TopCorrection(lay, y, rec) # 0
                    THEN ClampScroll(lay, y + TopCorrection(lay, y, rec))
                    ELSE y
    IN  IF BottomCorrectionIssued(lay, y, rec)
        THEN ClampScroll(lay, afterTop + BottomCorrection(lay, y, rec))
        ELSE afterTop

\* an instant scrollBy aborts the smooth scroll in progress
RevalidationScrolls(lay, y, rec) ==
    TopCorrection(lay, y, rec) # 0 \/ BottomCorrectionIssued(lay, y, rec)

\* the scroll decided by forceAdjust alone
shouldAdjustForcedOnly(id, forceAdjust) == forceAdjust

\* shouldAdjust of openFocusScroll
shouldAdjust(id, forceAdjust) == forceAdjust \/ id \in IDs_TO_ADJUST_SCROLL

\* history.replaceState(null, '', '#' + id): the fragment and the entry count
replaceStateHash(h, id) == id

\* history.pushState instead: one more entry
pushStateLen(n) == n + 1

replaceStateLen(n) == n

----------------------------------------------------------------------------
(* Layouts *)

Layout(toolbar, innerHeight, docHeight, top, height) ==
    [toolbar |-> toolbar, innerHeight |-> innerHeight, docHeight |-> docHeight,
     top |-> top, height |-> height]

\* the page of the main specification: a 38 px toolbar, an 800 px viewport,
\* 'education' taller than the viewport, the other panels shorter
PageLayout ==
    Layout(<<38>>, 800, 3000,
           [togglePalette |-> 4, about |-> 100, education |-> 440],
           [togglePalette |-> 30, about |-> 300, education |-> 900])

----------------------------------------------------------------------------
(* Observation of the handler that ran last *)

NoRevalidation ==
    [term |-> NoElement, targetScrollTop |-> 0, offset |-> 0,
     viewportHeight |-> 0, fitsInViewport |-> FALSE, forceAdjust |-> FALSE]

\* op, id, force: the handler and its arguments; before: the class lists when
\* it started; twice: the handler before it was the same one on the same id,
\* and then before0: the class lists when that one started.  For a
\* re-validation callback, rec is its closure, at the scroll position it
\* found and moving whether a smooth scroll was still in progress; when the
\* same callback ran just before it, at0 and moving0 are what that one found.
\* threw: history.replaceState threw in this handler.
Observed(op, id, force, rec, at, moving, threw) ==
    LET twice == last.op = op /\ last.id = id
    IN  [op |-> op, id |-> id, force |-> force,
         before |-> classList, twice |-> twice,
         before0 |-> IF twice THEN last.before ELSE classList,
         rec |-> rec, at |-> at, moving |-> moving,
         at0 |-> IF twice /\ last.rec = rec THEN last.at ELSE at,
         moving0 |-> IF twice /\ last.rec = rec THEN last.moving ELSE moving,
         threw |-> threw]

PageLoaded ==
    [op |-> "load", id |-> NoElement, force |-> FALSE,
     before |-> [e \in Elements |-> {}], twice |-> FALSE,
     before0 |-> [e \in Elements |-> {}],
     rec |-> NoRevalidation, at |-> 0, moving |-> FALSE,
     at0 |-> 0, moving0 |-> FALSE, threw |-> FALSE]

Called(op, id, force) ==
    Observed(op, id, force, NoRevalidation, 0, FALSE, FALSE)

\* a handler that called openFocusScroll(id, force); replaceState is reached
\* only when the id names an element
Focused(op, id, force, threw) ==
    Observed(op, id, force, NoRevalidation, 0, FALSE, threw /\ id \in Elements)

Ran(op) == Called(op, NoElement, FALSE)

\* the smooth scroll settled; when it does so right after a re-validation
\* callback, rec and at are still those of that callback
Settled ==
    IF last.op = "revalidate"
    THEN Observed("settle", last.id, last.force, last.rec, last.at, FALSE, FALSE)
    ELSE Ran("settle")

\* the start-up id without the fragment
initialHashIgnoresFragment == "about"

\* the start-up id with no default, as in the earlier copy of the script
initialHashNoDefault == loadedHash

\* const initialHash = location.hash ? location.hash.slice(1) : 'about'
initialHash == IF loadedHash # "" THEN loadedHash ELSE "about"

----------------------------------------------------------------------------
(* Initial state: the page as loaded, before the start-up timer fires *)

Init ==
    /\ classList = [e \in Elements |-> {}]
    /\ dataState = ObservedTitles(classList)
    /\ hash \in LoadHashes
    /\ historyLen = 1
    /\ startPending = TRUE
    /\ loadedHash = hash
    /\ layout = PageLayout
    /\ timerCap = MaxTimers
    /\ scrollY = 0
    /\ smoothTarget = {}
    /\ timers = <<>>
    /\ userActed = FALSE
    /\ last = PageLoaded

----------------------------------------------------------------------------
(* Steps shared by the handlers *)

\* scrollAdjusted(term, forceAdjust): smooth scrollTo (which replaces a smooth
\* scroll in progress), then setTimeout
\* a scrollAdjusted that clears the pending callbacks before it schedules
\* its own
scrollAdjustedDebounced(term, forceAdjust) ==
    /\ Len(timers) < timerCap
    /\ smoothTarget' = {targetScrollTop(layout, scrollY, term)}
    /\ timers' = <<Revalidation(layout, scrollY, term, forceAdjust)>>
    /\ UNCHANGED scrollY

scrollAdjusted(term, forceAdjust) ==
    /\ Len(timers) < timerCap
    /\ smoothTarget' = {targetScrollTop(layout, scrollY, term)}
    /\ timers' = Append(timers, Revalidation(layout, scrollY, term, forceAdjust))
    /\ UNCHANGED scrollY

NoScrollCall == UNCHANGED <<scrollY, smoothTarget, timers>>

\* a catch block that falls back to assigning location.hash
caughtHashFallback(h, id) == id

\* catch (e) { console.error(...) }: the location is left as it was
caughtHash(h, id) == h

\* openFocusScroll(id, forceAdjust); replaceState may throw, which is caught
openFocusScroll(id, forceAdjust, threw) ==
    LET term == getElementById(id)
    IN  IF term = NoElement
        THEN /\ UNCHANGED <<classList, dataState, hash, historyLen>>
             /\ NoScrollCall
        ELSE /\ classList' = focusTerminal(classList, term)
             /\ dataState' = ObservedTitles(classList')
             /\ IF shouldAdjust(id, forceAdjust)
                THEN scrollAdjusted(term, forceAdjust)
                ELSE NoScrollCall
             /\ IF threw
                THEN /\ hash' = caughtHash(hash, id)
                     /\ UNCHANGED historyLen
                ELSE /\ hash' = replaceStateHash(hash, id)
                     /\ historyLen' = replaceStateLen(historyLen)

----------------------------------------------------------------------------
(* Actions *)

\* click on the red dot of a terminal
ClickRed(term) ==
    /\ classList' = redClick(classList, term)
    /\ dataState' = ObservedTitles(classList')
    /\ NoScrollCall
    /\ userActed' = TRUE
    /\ last' = Called("red", term, FALSE)
    /\ UNCHANGED <<hash, historyLen, startPending, loadedHash, layout,
                   timerCap>>

\* click on the yellow dot of a terminal
ClickYellow(term) ==
    /\ classList' = yellowClick(classList, term)
    /\ dataState' = ObservedTitles(classList')
    /\ NoScrollCall
    /\ userActed' = TRUE
    /\ last' = Called("yellow", term, FALSE)
    /\ UNCHANGED <<hash, historyLen, startPending, loadedHash, layout,
                   timerCap>>

\* click on the green dot of a terminal; window.__scrollAdjusted is set by
\* the time a click can arrive, so the scrollIntoView fallback never runs
ClickGreen(term) ==
    /\ classList' = greenClick(classList, term)
    /\ dataState' = ObservedTitles(classList')
    /\ IF "maxwide" \notin classList[term]
       THEN scrollAdjusted(term, TRUE)
       ELSE NoScrollCall
    /\ userActed' = TRUE
    /\ last' = Called("green", term, TRUE)
    /\ UNCHANGED <<hash, historyLen, startPending, loadedHash, layout,
                   timerCap>>

\* click on a link of the index
IndexClick(targetId) ==
    /\ \E threw \in BOOLEAN :
          /\ openFocusScroll(targetId, TRUE, threw)
          /\ last' = Focused("index", targetId, TRUE, threw)
    /\ userActed' = TRUE
    /\ UNCHANGED <<startPending, loadedHash, layout, timerCap>>

\* another script calls window.__openFocusScroll
CallOpenFocusScroll(id, forceAdjust) ==
    /\ \E threw \in BOOLEAN :
          /\ openFocusScroll(id, forceAdjust, threw)
          /\ last' = Focused("call", id, forceAdjust, threw)
    /\ userActed' = TRUE
    /\ UNCHANGED <<startPending, loadedHash, layout, timerCap>>

\* a start-up timer that does nothing once the user has acted
StartupTimerUnlessUserActed ==
    /\ startPending
    /\ IF userActed
       THEN /\ UNCHANGED <<classList, dataState, hash, historyLen>>
            /\ NoScrollCall
            /\ last' = Focused("startup", initialHash, TRUE, FALSE)
       ELSE \E threw \in BOOLEAN :
               /\ openFocusScroll(initialHash, TRUE, threw)
               /\ last' = Focused("startup", initialHash, TRUE, threw)
    /\ startPending' = FALSE
    /\ UNCHANGED <<loadedHash, layout, timerCap, userActed>>

\* the start-up timer fires
StartupTimer ==
    /\ startPending
    /\ \E threw \in BOOLEAN :
          /\ openFocusScroll(initialHash, TRUE, threw)
          /\ last' = Focused("startup", initialHash, TRUE, threw)
    /\ startPending' = FALSE
    /\ UNCHANGED <<loadedHash, layout, timerCap, userActed>>

\* the smooth scroll in progress reaches its target; nothing ties this to the
\* 450 ms of the callback, which may run before or after it
SmoothScrollSettle ==
    /\ smoothTarget # {}
    /\ scrollY' = ClampScroll(layout, CHOOSE y \in smoothTarget : TRUE)
    /\ smoothTarget' = {}
    /\ last' = Settled
    /\ UNCHANGED <<classList, dataState, hash, historyLen, startPending,
                   loadedHash, layout, timerCap, timers, userActed>>

\* the oldest pending re-validation callback runs.  Callbacks are due 450 ms
\* after their call, so in call order, and after the 100 ms start-up timer,
\* which is armed before any handler can run.
RevalidateTimer ==
    /\ ~startPending
    /\ timers # <<>>
    /\ LET rec == Head(timers)
       IN  /\ scrollY' = Revalidated(layout, scrollY, rec)
           /\ smoothTarget' = IF RevalidationScrolls(layout, scrollY, rec)
                              THEN {}
                              ELSE smoothTarget
           /\ last' = Observed("revalidate", rec.term, rec.forceAdjust, rec,
                               scrollY, smoothTarget # {}, FALSE)
    /\ timers' = Tail(timers)
    /\ UNCHANGED <<classList, dataState, hash, historyLen, startPending,
                   loadedHash, layout, timerCap, userActed>>

Next ==
    \/ \E term \in Panels : ClickRed(term)
    \/ \E term \in Panels : ClickYellow(term)
    \/ \E term \in Panels : ClickGreen(term)
    \/ \E targetId \in Panels : IndexClick(targetId)
    \/ \E id \in Ids, forceAdjust \in BOOLEAN : CallOpenFocusScroll(id, forceAdjust)
    \/ StartupTimer
    \/ SmoothScrollSettle
    \/ RevalidateTimer

Spec == Init /\ [][Next]_vars

----------------------------------------------------------------------------
(* The scroll coordinator alone, over a range of page geometries *)

\* pages with and without a toolbar, an even and an odd viewport height, the
\* first panel short, exactly fitting, one pixel too tall and much too tall
ScrollLayouts ==
    { Layout(toolbar, innerHeight, 4000,
             [togglePalette |-> 4, about |-> top, education |-> top + height + 20],
             [togglePalette |-> 30, about |-> height, education |-> 900]) :
        toolbar \in {<<>>, <<38>>},
        innerHeight \in {800, 801},
        top \in {100, 500},
        height \in {300, 734, 735, 900} }

\* the viewport height and the toolbars a resize of the window leads to
ResizedHeights == {1000}

ResizedToolbars == {<<38>>, <<76>>}

InitScroll ==
    /\ classList = [e \in Elements |-> {}]
    /\ dataState = ObservedTitles(classList)
    /\ hash = ""
    /\ historyLen = 1
    /\ startPending = FALSE
    /\ loadedHash = ""
    /\ layout \in ScrollLayouts
    /\ timerCap = MaxScrollTimers
    /\ scrollY = 0
    /\ smoothTarget = {}
    /\ timers = <<>>
    /\ userActed = FALSE
    /\ last = PageLoaded

\* a script calls window.__scrollAdjusted on a terminal
CallScrollAdjusted(term, forceAdjust) ==
    /\ scrollAdjusted(term, forceAdjust)
    /\ userActed' = TRUE
    /\ last' = Called("scrollAdjusted", term, forceAdjust)
    /\ UNCHANGED <<classList, dataState, hash, historyLen, startPending,
                   loadedHash, layout, timerCap>>

\* the user resizes the window while a callback is pending; the document
\* stays taller than the viewport, so the scroll position is kept
Resize(innerHeight, toolbar) ==
    /\ timers # <<>>
    /\ innerHeight # layout.innerHeight
    /\ layout' = [layout EXCEPT !.innerHeight = innerHeight,
                                !.toolbar = toolbar]
    /\ last' = Ran("resize")
    /\ UNCHANGED <<classList, dataState, hash, historyLen, startPending,
                   loadedHash, timerCap, scrollY, smoothTarget, timers,
                   userActed>>

NextScroll ==
    \/ \E term \in Panels, forceAdjust \in BOOLEAN :
           CallScrollAdjusted(term, forceAdjust)
    \/ \E innerHeight \in ResizedHeights, toolbar \in ResizedToolbars :
           Resize(innerHeight, toolbar)
    \/ SmoothScrollSettle
    \/ RevalidateTimer

SpecScroll == InitScroll /\ [][NextScroll]_vars

\* a timer that is due fires: setTimeout callbacks are tasks of the event
\* loop, which runs every task it has queued
FairSpecScroll == SpecScroll /\ WF_vars(RevalidateTimer)

----------------------------------------------------------------------------
(* The user's clicks alone: the window buttons, the index links and the    *)
(* start-up timer, with room for two pending callbacks                     *)

InitClicks ==
    /\ classList = [e \in Elements |-> {}]
    /\ dataState = ObservedTitles(classList)
    /\ hash \in LoadHashes
    /\ historyLen = 1
    /\ startPending = TRUE
    /\ loadedHash = hash
    /\ layout = PageLayout
    /\ timerCap = MaxClickTimers
    /\ scrollY = 0
    /\ smoothTarget = {}
    /\ timers = <<>>
    /\ userActed = FALSE
    /\ last = PageLoaded

NextClicks ==
    \/ \E term \in Panels : ClickRed(term)
    \/ \E term \in Panels : ClickYellow(term)
    \/ \E term \in Panels : ClickGreen(term)
    \/ \E targetId \in Panels : IndexClick(targetId)
    \/ StartupTimer
    \/ SmoothScrollSettle
    \/ RevalidateTimer

SpecClicks == InitClicks /\ [][NextClicks]_vars

\* the index links and the start-up timer alone: every scroll and every
\* callback comes from an openFocusScroll(id, true)
NextIndex ==
    \/ \E targetId \in Panels : IndexClick(targetId)
    \/ StartupTimer
    \/ SmoothScrollSettle
    \/ RevalidateTimer

SpecIndex == InitClicks /\ [][NextIndex]_vars

----------------------------------------------------------------------------
(* Claims *)

Maximized(cls) == {p \in Panels : "maxwide" \in cls[p]}

FocusOps == {"index", "call", "startup"}

\* C1: after every handler (window buttons, index clicks, script calls, the
\* start-up focus) at most one panel of the registry is maximized.
C1_AtMostOneMaximized == Cardinality(Maximized(classList)) <= 1

\* a panel was maximized when the green button or a focus call maximized
\* another one
C1_Witness ==
    /\ last.op \in {"green"} \cup FocusOps
    /\ last.id \in Panels
    /\ Maximized(last.before) = Panels \ {last.id}
    /\ Maximized(classList) = {last.id}

\* C2: after any window-button click or focus call, every panel carries at
\* most one of closed, minimized, maximized.
C2_FlagsExclusive == \A p \in Panels : Cardinality(classList[p]) <= 1

\* a maximized panel was closed with the red button
C2_Witness ==
    /\ last.op = "red"
    /\ "maxwide" \in last.before[last.id]
    /\ classList[last.id] = {"closed"}

\* C3: whatever the state before, after focusTerminal(id) (as called by
\* openFocusScroll on a panel) panel id is exactly maximized, neither closed
\* nor minimized, and no other panel is maximized.
C3_SetMaximizedExclusive ==
    (last.op \in FocusOps /\ last.id \in Panels) =>
        /\ classList[last.id] = {"maxwide"}
        /\ \A q \in Panels \ {last.id} : "maxwide" \notin classList[q]

\* the target was closed and another panel maximized when it was focused
C3_Witness ==
    /\ last.op \in FocusOps
    /\ last.id \in Panels
    /\ last.before[last.id] = {"closed"}
    /\ Maximized(last.before) # {}
    /\ classList[last.id] = {"maxwide"}

\* C4: the green button is a restore toggle.  On a maximized panel it only
\* takes maximized off that panel: no other class of any element changes and
\* no scroll or re-validation is issued.  On a panel that is not maximized it
\* takes maximized off every other panel, leaves that panel exactly
\* maximized, and leaves closed and minimized of the other panels alone.
C4_ToggleMaximized ==
    [][last'.op = "green" =>
         LET id == last'.id
         IN  IF "maxwide" \in classList[id]
             THEN /\ classList' = [classList EXCEPT ![id] = @ \ {"maxwide"}]
                  /\ UNCHANGED <<scrollY, smoothTarget, timers>>
             ELSE /\ classList'[id] = {"maxwide"}
                  /\ \A q \in Panels \ {id} :
                        classList'[q] = classList[q] \ {"maxwide"}
        ]_vars

\* the green button restored a maximized panel
C4_Witness ==
    /\ last.op = "green"
    /\ "maxwide" \in last.before[last.id]
    /\ classList[last.id] = {}

\* C5: the red button flips closed of its panel; closing clears minimized
\* and maximized of that panel, reopening leaves them as they were.  The
\* yellow button does the same with minimized (clearing closed and
\* maximized).  Neither changes another element's classes, the URL fragment,
\* the scroll position, the scroll in progress or the pending callbacks.
C5_ToggleClosedMinimized ==
    [][last'.op \in {"red", "yellow"} =>
         LET id == last'.id
             own == IF last'.op = "red" THEN "closed" ELSE "minimized"
             rest == Classes \ {own}
         IN  /\ (own \in classList'[id]) = (own \notin classList[id])
             /\ own \in classList'[id] => classList'[id] = {own}
             /\ own \notin classList'[id] =>
                    classList'[id] \cap rest = classList[id] \cap rest
             /\ \A q \in Elements \ {id} : classList'[q] = classList[q]
             /\ UNCHANGED <<hash, historyLen, scrollY, smoothTarget, timers>>
        ]_vars

\* the red button reopened a closed panel
C5_Witness ==
    /\ last.op = "red"
    /\ last.before[last.id] = {"closed"}
    /\ classList[last.id] = {}

\* C6: two red clicks in a row on one panel bring closed back to what it
\* was, and minimized and maximized are what they were exactly when both
\* were off before the first click.
C6_ToggleClosedTwice ==
    (last.op = "red" /\ last.twice) =>
        LET was == last.before0[last.id]
            now == classList[last.id]
            others == {"minimized", "maxwide"}
        IN  /\ ("closed" \in now) = ("closed" \in was)
            /\ (now \cap others = was \cap others) = (was \cap others = {})

\* two red clicks in a row on a panel that was maximized leave it normal
C6_Witness ==
    /\ last.op = "red"
    /\ last.twice
    /\ last.before0[last.id] = {"maxwide"}
    /\ classList[last.id] = {}

\* C7: openFocusScroll with an id that names no panel does nothing, with
\* either value of forceAdjust: no class of any element, no title label, no
\* scroll position, scroll in progress or pending callback, and neither the
\* URL fragment nor the history changes.
C7_UnknownIdNoOp ==
    [][(last'.op \in FocusOps /\ last'.id \notin Panels) =>
           UNCHANGED <<classList, dataState, hash, historyLen, scrollY,
                       smoothTarget, timers>>
      ]_vars

\* C7, for the ids that name no element at all
C7_AbsentIdNoOp ==
    [][(last'.op \in FocusOps /\ last'.id \notin Elements) =>
           UNCHANGED <<classList, dataState, hash, historyLen, scrollY,
                       smoothTarget, timers>>
      ]_vars

\* C8: scrollAdjusted issues its smooth scroll to the centring target when
\* the panel fits under the toolbar (height + offset + 16 <= viewport) and to
\* the top-aligning target when it does not, each floored at 0, with
\* offset = toolbar height + 12 and toolbar height 0 without a toolbar; the
\* callback it schedules carries the same fit decision.
C8_ScrollTarget ==
    last.op = "scrollAdjusted" =>
        LET term == last.id
            toolbarHeight == IF layout.toolbar = <<>> THEN 0 ELSE layout.toolbar[1]
            offset == toolbarHeight + 12
            panelHeight == layout.height[term]
            viewportHeight == layout.innerHeight
            absoluteTop == layout.top[term]
            fits == panelHeight + offset + 16 <= viewportHeight
        IN  /\ smoothTarget =
                 {IF fits
                  THEN Max(0, 2 * absoluteTop - (viewportHeight - panelHeight))
                  ELSE Max(0, 2 * (absoluteTop - (offset + 8)))}
            /\ timers[Len(timers)].fitsInViewport = fits
            /\ (offset = 50 /\ panelHeight = 300 /\ viewportHeight = 800) =>
                   smoothTarget = {Max(0, 2 * (absoluteTop - 250))}
            /\ (offset = 50 /\ panelHeight = 900 /\ viewportHeight = 800) =>
                   smoothTarget = {Max(0, 2 * (absoluteTop - 58))}

\* scrollAdjusted ran on a panel that fits exactly, on a page with a toolbar
C8_Witness ==
    /\ last.op = "scrollAdjusted"
    /\ layout.toolbar = <<38>>
    /\ layout.innerHeight = 800
    /\ layout.height[last.id] = 734
    /\ smoothTarget = {2 * layout.top[last.id] - 66}

\* the re-validation callback found its own smooth scroll finished at the
\* top-aligning target of a panel that does not fit
SettledAtTopTarget ==
    /\ last.op = "revalidate"
    /\ ~last.rec.fitsInViewport
    /\ ~last.moving
    /\ last.at = last.rec.targetScrollTop
    /\ last.at = Px(layout.top[last.id] - (last.rec.offset + 8))

TopJustBelowToolbar ==
    /\ RectTop(layout, scrollY, last.id) >= Px(last.rec.offset + 6)
    /\ RectTop(layout, scrollY, last.id) <= Px(last.rec.offset + 8)

\* C9: for a panel that does not fit, once the smooth scroll reached its
\* target and the re-validation callback ran, the panel's top is just below
\* the toolbar (between offset + 6 and offset + 8 from the viewport top),
\* with forceAdjust true as well as false.
C9_TopAlignedAfterRevalidation == SettledAtTopTarget => TopJustBelowToolbar

\* C9, for forceAdjust = false only
C9_TopAlignedUnforced ==
    (SettledAtTopTarget /\ ~last.force) => TopJustBelowToolbar

\* C10: loaded with the fragment of a panel and with no user input, once the
\* start-up timer has fired that panel is the only maximized one and the
\* fragment is still its id.
C10_DeepLink ==
    (~startPending /\ ~userActed /\ loadedHash \in Panels) =>
        /\ Maximized(classList) = {loadedHash}
        /\ hash = loadedHash

\* the start-up focus of a page loaded with #education has run
C10_Witness ==
    /\ last.op = "startup"
    /\ ~userActed
    /\ loadedHash = "education"
    /\ classList["education"] = {"maxwide"}
    /\ hash = "education"

\* C11: loaded with no fragment and with no user input, once the start-up
\* timer has fired the default panel 'about' has been focused through
\* openFocusScroll(initialHash, true): it is maximized, neither closed nor
\* minimized, no other panel is maximized, its forced scroll was issued with
\* a re-validation, and the fragment is 'about' unless replaceState threw.
C11_DefaultFragment ==
    (~startPending /\ ~userActed /\ loadedHash = "") =>
        /\ classList["about"] = {"maxwide"}
        /\ Maximized(classList) = {"about"}
        /\ hash \in {"", "about"}
        /\ last.op = "startup" =>
               /\ last.id = "about"
               /\ last.force
               /\ hash = (IF last.threw THEN "" ELSE "about")
               /\ smoothTarget = {targetScrollTop(layout, 0, "about")}
               /\ Len(timers) = 1
               /\ timers[1].term = "about"
               /\ timers[1].forceAdjust

\* the start-up focus of a page loaded without a fragment has run
C11_Witness ==
    /\ last.op = "startup"
    /\ ~userActed
    /\ loadedHash = ""
    /\ classList["about"] = {"maxwide"}
    /\ hash = "about"
    /\ timers # <<>>

\* C12: no step adds a history entry; an openFocusScroll on a panel whose
\* replaceState does not throw leaves the fragment equal to the panel's id;
\* and no handler other than openFocusScroll changes the fragment, so that
\* until the next focus it stays the id of the panel focused last.
C12_ReplaceNotPush ==
    [][ /\ historyLen' = historyLen
        /\ (last'.op \in FocusOps /\ last'.id \in Panels /\ ~last'.threw) =>
               hash' = last'.id
        /\ last'.op \notin FocusOps => hash' = hash ]_vars

\* after the start-up focus, an index click moved the fragment to another
\* panel, and the history still has its one entry
C12_Witness ==
    /\ last.op = "index"
    /\ ~last.threw
    /\ ~startPending
    /\ hash = last.id
    /\ hash # initialHash
    /\ historyLen = 1

\* C13: when replaceState throws in an openFocusScroll on a panel, the
\* handler still completes and nothing is rolled back: the panel is the only
\* maximized one, the scroll and its re-validation are issued as the
\* arguments demand, and the fragment and the history are as before.
C13_ThrowCaught ==
    [][ (last'.op \in FocusOps /\ last'.id \in Panels /\ last'.threw) =>
            /\ hash' = hash
            /\ historyLen' = historyLen
            /\ classList'[last'.id] = {"maxwide"}
            /\ Maximized(classList') = {last'.id}
            /\ IF last'.force \/ last'.id \in IDs_TO_ADJUST_SCROLL
               THEN /\ smoothTarget' =
                           {targetScrollTop(layout, scrollY, last'.id)}
                    /\ timers' = Append(timers,
                           Revalidation(layout, scrollY, last'.id, last'.force))
               ELSE UNCHANGED <<smoothTarget, timers>>
            /\ last'.op = "startup" => ~startPending' ]_vars

\* replaceState threw in an index click: the panel is maximized and its
\* scroll pending, the fragment still names the other panel
C13_Witness ==
    /\ last.op = "index"
    /\ last.threw
    /\ hash \in Panels \ {last.id}
    /\ classList[last.id] = {"maxwide"}
    /\ smoothTarget # {}
    /\ timers # <<>>

\* where one openFocusScroll(id, true) ends: its smooth scroll settles, then
\* its callback runs
OnceFinal(rec) ==
    Revalidated(layout, ClampScroll(layout, rec.targetScrollTop), rec)

\* two openFocusScroll(id, true) in a row are over: the scroll had settled
\* when the first callback ran, the second callback followed it, and nothing
\* is pending
TwiceDone ==
    /\ last.op = "revalidate"
    /\ last.twice
    /\ last.at0 = ClampScroll(layout, last.rec.targetScrollTop)
    /\ ~last.moving0
    /\ ~last.moving
    /\ smoothTarget = {}
    /\ timers = <<>>

\* the flags and the fragment after the second of two index clicks on the
\* same link are those the first one left
C14_FlagsAndFragment ==
    (last.op = "index" /\ last.twice) =>
        /\ classList = last.before
        /\ classList[last.id] = {"maxwide"}
        /\ ~last.threw => hash = last.id

\* C14: clicking the same index link twice ends as clicking it once: the
\* same flags on every panel, the same fragment and, when the scrolls and
\* the callbacks are over, the same scroll position.
C14_TwiceAsOnce ==
    /\ C14_FlagsAndFragment
    /\ TwiceDone => scrollY = OnceFinal(last.rec)

\* the tokens of a label: for each flag that is set, in the order closed,
\* minimized, maximized, the word the page shows for it
LabelTokens(cl, closedWord, minimizedWord, maxWord) ==
    LET words == [c \in Classes |->
                    IF c = "closed" THEN closedWord
                    ELSE IF c = "minimized" THEN minimizedWord ELSE maxWord]
        order == <<"closed", "minimized", "maxwide">>
        set(c) == c \in cl
    IN  [i \in 1..Len(SelectSeq(order, set)) |-> words[SelectSeq(order, set)[i]]]

\* C15 as stated: after every handler, with the class observers run, the
\* title label of each panel lists "closed", "minimized", "max" for the flags
\* that are set, in that order, and is empty when none is set.
C15_EnglishLabels ==
    \A p \in Panels :
        dataState[p] = LabelTokens(classList[p], "closed", "minimized", "max")

\* C15: after every handler, with the class observers run, the title label
\* of each panel, those un-maximized as a side effect and those changed by
\* openFocusScroll included, lists "cerrada", "minimizada", "max" for the
\* flags that are set, in the order closed, minimized, maximized, and is
\* empty when none is set.
C15_TitleLabels ==
    \A p \in Panels :
        dataState[p] = LabelTokens(classList[p], "cerrada", "minimizada", "max")

\* an index click on one panel un-maximized the other: both labels follow
C15_Witness ==
    /\ last.op = "index"
    /\ \E p \in Panels \ {last.id} :
          /\ "maxwide" \in last.before[p]
          /\ dataState[p] = <<>>
    /\ dataState[last.id] = <<"max">>

\* C16: an openFocusScroll on a panel issues one smooth scroll and schedules
\* one re-validation carrying forceAdjust exactly when forceAdjust is true or
\* the panel carries data-adjust-scroll; otherwise it touches neither the
\* scroll nor the timers.  Either way the panel ends as the only maximized
\* one and, unless replaceState threw, the fragment is its id.
C16_ShouldAdjust ==
    [][ (last'.op \in FocusOps /\ last'.id \in Panels) =>
            /\ classList'[last'.id] = {"maxwide"}
            /\ Maximized(classList') = {last'.id}
            /\ ~last'.threw => hash' = last'.id
            /\ scrollY' = scrollY
            /\ IF last'.force \/ last'.id = "about"
               THEN /\ smoothTarget' =
                           {targetScrollTop(layout, scrollY, last'.id)}
                    /\ Len(timers') = Len(timers) + 1
                    /\ SubSeq(timers', 1, Len(timers)) = timers
                    /\ timers'[Len(timers')].term = last'.id
                    /\ timers'[Len(timers')].forceAdjust = last'.force
               ELSE /\ smoothTarget' = smoothTarget
                    /\ timers' = timers ]_vars

\* openFocusScroll('education', false) maximized the panel and set the
\* fragment with no scroll and no callback
C16_Witness ==
    /\ last.op = "call"
    /\ last.id = "education"
    /\ ~last.force
    /\ classList["education"] = {"maxwide"}
    /\ hash = "education"
    /\ smoothTarget = {}
    /\ timers = <<>>

\* C17: the callback reads the rectangle of its panel once, at the position
\* it finds, and decides with the offset, the viewport height, the fit and
\* forceAdjust of its call: it scrolls by top - (offset + 6) exactly when
\* top < offset + 6, then by bottom - (viewportHeight - 8) exactly when
\* bottom > viewportHeight - 8 and the panel fitted or the call was forced;
\* with neither, no bottom correction.  The values are those of the call: a
\* call captures the offset, the viewport height and the fit of its moment,
\* and a resize changes no pending callback.
C17_CapturedValues ==
    [][ /\ last'.op = "revalidate" =>
              LET rec == Head(timers)
                  top == 2 * layout.top[rec.term] - scrollY
                  bottom == top + 2 * layout.height[rec.term]
                  topLimit == 2 * (rec.offset + 6)
                  bottomLimit == 2 * (rec.viewportHeight - 8)
                  bottomFix == /\ bottom > bottomLimit
                               /\ (rec.fitsInViewport \/ rec.forceAdjust)
                  afterTop == IF top < topLimit
                              THEN ClampScroll(layout, scrollY + (top - topLimit))
                              ELSE scrollY
                  afterBottom == IF bottomFix
                                 THEN ClampScroll(layout,
                                          afterTop + (bottom - bottomLimit))
                                 ELSE afterTop
              IN  /\ last'.rec = rec
                  /\ scrollY' = afterBottom
                  /\ (~rec.fitsInViewport /\ ~rec.forceAdjust) =>
                         scrollY' = afterTop
        /\ last'.op = "scrollAdjusted" =>
              LET rec == timers'[Len(timers')]
                  toolbarHeight == IF layout.toolbar = <<>> THEN 0
                                   ELSE layout.toolbar[1]
              IN  /\ rec.term = last'.id
                  /\ rec.forceAdjust = last'.force
                  /\ rec.offset = toolbarHeight + 12
                  /\ rec.viewportHeight = layout.innerHeight
                  /\ rec.fitsInViewport =
                         (layout.height[rec.term] + rec.offset + 16
                              <= layout.innerHeight)
        /\ last'.op = "resize" => timers' = timers ]_vars

\* the window grew between an unforced call on a panel that did not fit and
\* its callback: the panel now fits and its bottom is below the captured
\* limit, and the callback issued no correction
C17_Witness ==
    /\ last.op = "revalidate"
    /\ ~last.rec.fitsInViewport
    /\ ~last.rec.forceAdjust
    /\ last.rec.viewportHeight # layout.innerHeight
    /\ last.rec.offset # getToolbarOffset(layout)
    /\ fitsInViewport(layout, last.id)
    /\ RectBottom(layout, last.at, last.id) > Px(last.rec.viewportHeight - 8)
    /\ scrollY = last.at

\* C18: a call schedules exactly one callback behind those already pending
\* and removes none of them; only a firing callback leaves the queue, the
\* oldest first, and it corrects from the rectangle its own panel has at
\* that moment; and the queue never stays non-empty without a callback
\* firing.
C18_EveryCallbackFires ==
    /\ [][ (last'.op = "scrollAdjusted" =>
                /\ Len(timers') = Len(timers) + 1
                /\ SubSeq(timers', 1, Len(timers)) = timers
                /\ timers'[Len(timers')].term = last'.id)
           /\ (last'.op = "revalidate" =>
                /\ timers # <<>>
                /\ timers' = Tail(timers)
                /\ last'.rec = Head(timers)
                /\ last'.at = scrollY
                /\ scrollY' = Revalidated(layout, scrollY, Head(timers)))
           /\ (last'.op \notin {"scrollAdjusted", "revalidate"} =>
                timers' = timers) ]_vars
    /\ ([]<>(timers = <<>>) \/ []<><<RevalidateTimer>>_vars)

\* the callback of a first call ran while that of a later call on the other
\* panel was still pending
C18_Witness ==
    /\ last.op = "revalidate"
    /\ Len(timers) = 1
    /\ timers[1].term # last.id

\* nothing is pending, and last.rec is the closure of the last call: its
\* callback emptied the queue, in the last step or just before the smooth
\* scroll settled
Quiescent ==
    /\ smoothTarget = {}
    /\ timers = <<>>
    /\ last.op \in {"revalidate", "settle"}
    /\ last.rec # NoRevalidation

\* the panel of the last call fits, the geometry is that of the call, and
\* neither the target nor the position reached is at an end of the document
FitsUnclamped ==
    /\ last.rec.fitsInViewport
    /\ last.rec.viewportHeight = layout.innerHeight
    /\ last.rec.offset = getToolbarOffset(layout)
    /\ last.rec.targetScrollTop > 0
    /\ last.rec.targetScrollTop < MaxScroll(layout)
    /\ scrollY > 0
    /\ scrollY < MaxScroll(layout)

WithinBounds ==
    /\ RectTop(layout, scrollY, last.rec.term) >= Px(last.rec.offset + 6)
    /\ RectBottom(layout, scrollY, last.rec.term)
           <= Px(last.rec.viewportHeight - 8)
    /\ Revalidated(layout, scrollY, last.rec) = scrollY

\* C19: once every smooth scroll has settled and every callback has fired,
\* the panel of the last call, if it fits and nothing was clamped, has its
\* top at or below offset + 6 and its bottom at or above viewportHeight - 8
\* from the viewport's top, and one more re-validation would not scroll.
C19_SelfLimiting == (Quiescent /\ FitsUnclamped) => WithinBounds

\* the same, for the states in which the callback of the last call was the
\* last thing to move the page
C19_AfterLastCallback ==
    (Quiescent /\ FitsUnclamped /\ last.op = "revalidate") => WithinBounds

\* C20 as stated: the start-up timer fires once, whatever the user did
\* before; right after it the start-up panel is the only maximized one and
\* the fragment is its id; and it never fires again.
C20_StartupOverrides ==
    [][ /\ last'.op = "startup" =>
              /\ startPending /\ ~startPending'
              /\ last'.id = initialHash /\ last'.force
              /\ last'.id \in Panels =>
                     /\ classList'[last'.id] = {"maxwide"}
                     /\ Maximized(classList') = {last'.id}
                     /\ hash' = last'.id
        /\ ~startPending => (~startPending' /\ last'.op # "startup") ]_vars

\* C20: the start-up timer fires once, whatever the user did before; right
\* after it the start-up panel is the only maximized one and the fragment
\* is its id unless replaceState threw, in which case the fragment is as the
\* user's actions left it; and it never fires again.
C20_StartupOverridesUnlessThrown ==
    [][ /\ last'.op = "startup" =>
              /\ startPending /\ ~startPending'
              /\ last'.id = initialHash /\ last'.force
              /\ last'.id \in Panels =>
                     /\ classList'[last'.id] = {"maxwide"}
                     /\ Maximized(classList') = {last'.id}
                     /\ hash' = (IF last'.threw THEN hash ELSE last'.id)
        /\ ~startPending => (~startPending' /\ last'.op # "startup") ]_vars

\* the user had clicked the index link of the other panel, whose callback is
\* still pending, when the start-up timer fired and took over
C20_Witness ==
    /\ last.op = "startup"
    /\ userActed
    /\ Maximized(last.before) = Panels \ {last.id}
    /\ Maximized(classList) = {last.id}
    /\ hash = last.id
    /\ Len(timers) = 2
    /\ timers[1].term # last.id
    /\ timers[2].term = last.id

====
